---------------------------- MODULE Spec2Model ----------------------------
(***************************************************************************)
(* FutureCrop price prediction service (futureprediction/backend/app.py).  *)
(*                                                                         *)
(* Texts are sequences of one-character strings, so that lower(), strip(), *)
(* substring tests and the strptime / float parsers are computed and not   *)
(* assumed.  Floating point prices are exact rationals [n, d] in lowest    *)
(* terms with d > 0.                                                       *)
(*                                                                         *)
(* Modelled: lines 50-206, the loader, find_recent_price, simple_predict   *)
(* and the POST /predict handler.  The code at module level after the      *)
(* handler (GET /, the `_name_` guard of line 214 and the CSV generator    *)
(* behind it) takes no part in a prediction and is left out.               *)
(***************************************************************************)
EXTENDS Integers, Sequences, FiniteSets, TLC

VARIABLES
    csv_file,        \* the file at MOCK_CSV: NoFile, or its data rows
    clock,           \* the system clock, as (year, month)
    startup,         \* "init", "ready" (module imported), "crashed"
    MOCK_DATA,       \* the in-memory dataset
    pc,              \* position of the request handler
    req,             \* the PredictRequest in flight
    trace,           \* phases the handler has gone through for req
    target_date,     \* predict: target_date
    now,             \* predict: now
    months_ahead,    \* predict: months_ahead
    find_args,       \* find_recent_price: (state, district, crop, market)
    candidates,      \* find_recent_price: candidates, as row numbers of MOCK_DATA
    first_pass,      \* find_recent_price: candidates as first computed (line 103)
    record,          \* predict: record
    current_price,   \* predict: current_price
    unit,            \* predict: unit
    method,          \* predict: method
    vol,             \* simple_predict: vol, in percent
    price,           \* simple_predict: price
    i,               \* simple_predict: iterations of the walk done
    predicted_price, \* predict: predicted_price
    response         \* the HTTP response

vars == <<csv_file, clock, startup, MOCK_DATA, pc, req, trace, target_date, now,
          months_ahead, find_args, candidates, first_pass, record,
          current_price, unit, method, vol, price, i, predicted_price,
          response>>

\* An Optional value is a sequence of at most one element.
None == <<>>
Some(x) == <<x>>

-----------------------------------------------------------------------------
(* Bounds of the model *)

\* rows in the CSV file, under Spec
MaxRows == 2
\* rows in the CSV file, under SpecFind
MaxFindRows == 3
\* furthest target month, in months after "now"
MaxAhead == 2

-----------------------------------------------------------------------------
(* Texts *)

UpperChars == <<"A","B","C","D","E","F","G","H","I","J","K","L","M",
                "N","O","P","Q","R","S","T","U","V","W","X","Y","Z">>
LowerChars == <<"a","b","c","d","e","f","g","h","i","j","k","l","m",
                "n","o","p","q","r","s","t","u","v","w","x","y","z">>
Digits == <<"0","1","2","3","4","5","6","7","8","9">>
Whitespace == {" ", "\t"}

LowerChar(c) ==
    IF \E k \in 1..26 : UpperChars[k] = c
    THEN LowerChars[CHOOSE k \in 1..26 : UpperChars[k] = c]
    ELSE c

\* str.lower()
Lower(s) == [k \in 1..Len(s) |-> LowerChar(s[k])]

\* str.strip()
RECURSIVE LStrip(_)
LStrip(s) == IF s # <<>> /\ Head(s) \in Whitespace THEN LStrip(Tail(s)) ELSE s

RECURSIVE RStrip(_)
RStrip(s) ==
    IF s # <<>> /\ s[Len(s)] \in Whitespace
    THEN RStrip(SubSeq(s, 1, Len(s) - 1)) ELSE s

Strip(s) == RStrip(LStrip(s))

\* x in c, for strings
Contains(c, x) ==
    \E k \in 0..(Len(c) - Len(x)) : SubSeq(c, k + 1, k + Len(x)) = x

IsDigit(c) == \E k \in 1..10 : Digits[k] = c
DigitVal(c) == (CHOOSE k \in 1..10 : Digits[k] = c) - 1
AllDigits(s) == \A k \in 1..Len(s) : IsDigit(s[k])

\* int() of a string of digits
RECURSIVE IntOf(_)
IntOf(s) ==
    IF s = <<>> THEN 0
    ELSE 10 * IntOf(SubSeq(s, 1, Len(s) - 1)) + DigitVal(s[Len(s)])

RECURSIVE Pow10(_)
Pow10(k) == IF k = 0 THEN 1 ELSE 10 * Pow10(k - 1)

-----------------------------------------------------------------------------
(* Floats, as exact rationals *)

Abs(x) == IF x < 0 THEN -x ELSE x

RECURSIVE Gcd(_, _)
Gcd(a, b) == IF b = 0 THEN a ELSE Gcd(b, a % b)

Rat(n, d) ==
    LET g == Gcd(Abs(n), Abs(d))
        s == IF d < 0 THEN -1 ELSE 1
    IN  [n |-> s * (n \div g), d |-> s * (d \div g)]

RatMul(p, q) ==
    LET a == Rat(p.n, q.d)
        b == Rat(q.n, p.d)
    IN  Rat(a.n * b.n, a.d * b.d)

RatAdd(p, q) == Rat(p.n * q.d + q.n * p.d, p.d * q.d)
RatLt(p, q) == p.n * q.d < q.n * p.d
RatLe(p, q) == p.n * q.d <= q.n * p.d
RatMax(p, q) == IF RatLt(p, q) THEN q ELSE p
Zero == Rat(0, 1)
IsPositive(p) == p.n > 0

\* round(x, 2): the nearest multiple of 0.01, an exact tie going to the even
\* one (Python rounds the binary value; the price sets used here hold no
\* value whose rounding rests on the direction of a tie).
Round2(p) ==
    LET whole  == p.n \div p.d
        r0     == p.n - whole * p.d
        tenths == (10 * r0) \div p.d
        r1     == 10 * r0 - tenths * p.d
        hundr  == (10 * r1) \div p.d
        r2     == 10 * r1 - hundr * p.d
        fl     == 100 * whole + 10 * tenths + hundr
        up     == \/ r2 > p.d - r2
                  \/ r2 = p.d - r2 /\ fl % 2 = 1
    IN  Rat(IF up THEN fl + 1 ELSE fl, 100)

\* float(s) for the decimal notations [sign] digits [. digits] and
\* [sign] . digits, surrounding whitespace ignored; None stands for ValueError.
\* (Exponents, "inf", "nan" and digit-group underscores are not in the price
\* texts of the model.)

ParseFloat(text) ==
    LET s    == Strip(text)
        neg  == s # <<>> /\ Head(s) = "-"
        body == IF s # <<>> /\ Head(s) \in {"-", "+"} THEN Tail(s) ELSE s
        dots == {k \in 1..Len(body) : body[k] = "."}
        dot  == IF dots = {} THEN Len(body) + 1 ELSE CHOOSE k \in dots : TRUE
        ip   == SubSeq(body, 1, dot - 1)
        fp   == SubSeq(body, dot + 1, Len(body))
        ok   == /\ Cardinality(dots) <= 1
                /\ AllDigits(ip) /\ AllDigits(fp)
                /\ Len(ip) + Len(fp) > 0
        mag  == Rat(IntOf(ip) * Pow10(Len(fp)) + IntOf(fp), Pow10(Len(fp)))
    IN  IF ~ok THEN None
        ELSE IF neg THEN Some(Rat(-mag.n, mag.d)) ELSE Some(mag)

\* statistics.median of a non-empty list of rationals
RECURSIVE Insert(_, _)
Insert(sorted, x) ==
    IF sorted = <<>> THEN <<x>>
    ELSE IF RatLe(Head(sorted), x)
         THEN <<Head(sorted)>> \o Insert(Tail(sorted), x)
         ELSE <<x>> \o sorted

RECURSIVE Sorted(_)
Sorted(xs) ==
    IF xs = <<>> THEN <<>>
    ELSE Insert(Sorted(SubSeq(xs, 1, Len(xs) - 1)), xs[Len(xs)])

Median(xs) ==
    LET data == Sorted(xs)
        n    == Len(data)
    IN  IF n % 2 = 1 THEN data[n \div 2 + 1]
        ELSE RatMul(RatAdd(data[n \div 2], data[n \div 2 + 1]), Rat(1, 2))

-----------------------------------------------------------------------------
(* Dates: datetime.strptime(s, "%Y-%m-%d") *)

\* ValueError
NoDate == <<>>

IsLeap(y) == (y % 4 = 0 /\ y % 100 # 0) \/ y % 400 = 0

DaysIn(y, m) ==
    IF m = 2 THEN (IF IsLeap(y) THEN 29 ELSE 28)
    ELSE IF m \in {4, 6, 9, 11} THEN 30 ELSE 31

\* %m matches 1[0-2] | 0[1-9] | [1-9]
MonthText(t) ==
    \/ Len(t) = 2 /\ AllDigits(t) /\ IntOf(t) \in 1..12
    \/ Len(t) = 1 /\ AllDigits(t) /\ IntOf(t) \in 1..9

\* %d matches 3[01] | [12]\d | 0[1-9] | [1-9] | " "[1-9]
DayText(t) ==
    \/ Len(t) = 2 /\ AllDigits(t) /\ IntOf(t) \in 1..31
    \/ Len(t) = 1 /\ AllDigits(t) /\ IntOf(t) \in 1..9
    \/ Len(t) = 2 /\ t[1] = " " /\ IsDigit(t[2]) /\ DigitVal(t[2]) \in 1..9

Strptime(s) ==
    LET dash2 == IF Len(s) >= 7 /\ s[7] = "-" THEN 7 ELSE 8
        yt    == SubSeq(s, 1, 4)
        mt    == SubSeq(s, 6, dash2 - 1)
        dt    == SubSeq(s, dash2 + 1, Len(s))
        shape == /\ Len(s) >= dash2 + 1
                 /\ AllDigits(yt)
                 /\ s[5] = "-" /\ s[dash2] = "-"
                 /\ MonthText(mt) /\ DayText(dt)
        y     == IntOf(yt)
        m     == IntOf(mt)
        d     == IntOf(IF dt[1] = " " THEN Tail(dt) ELSE dt)
    IN  IF ~shape THEN NoDate
        ELSE IF y < 1 \/ d > DaysIn(y, m) THEN NoDate
        ELSE <<y, m, d>>

\* d1 < d2 on datetimes
DateLt(a, b) ==
    \/ a[1] < b[1]
    \/ a[1] = b[1] /\ a[2] < b[2]
    \/ a[1] = b[1] /\ a[2] = b[2] /\ a[3] < b[3]

\* month_to_date(ym)
month_to_date(ym) == Strptime(ym \o <<"-", "0", "1">>)

-----------------------------------------------------------------------------
(* The dataset loader *)

\* os.path.exists(csv_path) is false
NoFile == [exists |-> FALSE, rows |-> <<>>]
FileOf(rows) == [exists |-> TRUE, rows |-> rows]
\* the AttributeError of None.strip(), raised out of load_mock_data
Crashed == [crashed |-> TRUE, data |-> <<>>]
Loaded(data) == [crashed |-> FALSE, data |-> data]

FIELDNAMES == <<"state", "district", "market", "crop", "date", "price", "unit">>
Kg == <<"k", "g">>

\* csv.DictReader: a row's dict; a short row's missing values are None
\* (restval), fields beyond the header are kept apart under restkey
DictRow(raw) ==
    [f \in {FIELDNAMES[k] : k \in 1..7} |->
        LET k == CHOOSE j \in 1..7 : FIELDNAMES[j] = f
        IN  IF k <= Len(raw) THEN Some(raw[k]) ELSE None]

\* float(row.get("price") or 0) under try / except
RowPrice(row) ==
    IF row["price"] = None \/ row["price"] = Some(<<>>) THEN Zero
    ELSE IF ParseFloat(row["price"][1]) = None THEN Zero
    ELSE ParseFloat(row["price"][1])[1]

\* the dict appended for one row; None.strip() raises AttributeError (None)
LoadRow(raw) ==
    LET row == DictRow(raw)
    IN  IF \E f \in DOMAIN row : f # "price" /\ row[f] = None THEN None
        ELSE Some([state    |-> Strip(row["state"][1]),
                   district |-> Strip(row["district"][1]),
                   market   |-> Strip(row["market"][1]),
                   crop     |-> Strip(row["crop"][1]),
                   date     |-> Strip(row["date"][1]),
                   price    |-> RowPrice(row),
                   unit     |-> IF Strip(row["unit"][1]) = <<>> THEN Kg
                                ELSE Strip(row["unit"][1])])

\* DictReader skips the lines that are empty
DataRows(rows) == SelectSeq(rows, LAMBDA r : r # <<>>)

\* load_mock_data(): the dataset, or Crashed when a row raises
load_mock_data(file) ==
    IF ~file.exists THEN Loaded(<<>>)
    ELSE LET rows == DataRows(file.rows)
         IN  IF \E k \in 1..Len(rows) : LoadRow(rows[k]) = None
             THEN Crashed
             ELSE Loaded([k \in 1..Len(rows) |-> LoadRow(rows[k])[1]])

-----------------------------------------------------------------------------
(* find_recent_price *)

\* matches with the district and market of the request applied to every row,
\* rows with a blank field included
matches_strict(row, a) ==
    IF Lower(row.crop) # Lower(a.crop) THEN FALSE
    ELSE IF a.state # <<>> /\ Lower(row.state) # Lower(a.state) THEN FALSE
    ELSE IF a.district # <<>> /\ Lower(row.district) # Lower(a.district)
    THEN FALSE
    ELSE IF a.market # <<>> /\ Lower(row.market) # Lower(a.market) THEN FALSE
    ELSE TRUE

\* matches(row), for the arguments a of the call
matches(row, a) ==
    IF Lower(row.crop) # Lower(a.crop) THEN FALSE
    ELSE IF a.state # <<>> /\ Lower(row.state) # Lower(a.state) THEN FALSE
    ELSE IF /\ a.district # <<>> /\ row.district # <<>>
            /\ Lower(row.district) # Lower(a.district) THEN FALSE
    ELSE IF /\ a.market # <<>> /\ row.market # <<>>
            /\ Lower(row.market) # Lower(a.market) THEN FALSE
    ELSE TRUE

\* [r for r in MOCK_DATA if ...], as the row numbers kept, in order
RECURSIVE Filter(_, _, _)
Filter(data, keep(_), k) ==
    IF k > Len(data) THEN <<>>
    ELSE (IF keep(data[k]) THEN <<k>> ELSE <<>>) \o Filter(data, keep, k + 1)

filter_candidates(data, a) == Filter(data, LAMBDA r : matches(r, a), 1)

\* the relaxed list: crop only
relax_candidates(data, a) ==
    Filter(data, LAMBDA r : Lower(r.crop) = Lower(a.crop), 1)

\* with_dates: the (d, r) pairs of the candidates whose date parses
RECURSIVE with_dates(_, _)
with_dates(data, cands) ==
    IF cands = <<>> THEN <<>>
    ELSE LET d == Strptime(data[Head(cands)].date)
         IN  (IF d = NoDate THEN <<>> ELSE << <<d, Head(cands)>> >>)
             \o with_dates(data, Tail(cands))

\* list.sort(key=lambda x: x[0], reverse=True): stable, so pairs of equal
\* date keep their order; x goes behind every pair whose date is not older
RECURSIVE InsertDesc(_, _)
InsertDesc(sorted, x) ==
    IF sorted = <<>> THEN <<x>>
    ELSE IF DateLt(Head(sorted)[1], x[1])
         THEN <<x>> \o sorted
         ELSE <<Head(sorted)>> \o InsertDesc(Tail(sorted), x)

\* a sort that is not stable: x goes before the pairs of its own date
RECURSIVE InsertDescFirst(_, _)
InsertDescFirst(sorted, x) ==
    IF sorted = <<>> THEN <<x>>
    ELSE IF ~DateLt(x[1], Head(sorted)[1])
         THEN <<x>> \o sorted
         ELSE <<Head(sorted)>> \o InsertDescFirst(Tail(sorted), x)

RECURSIVE sort_reverse_unstable(_)
sort_reverse_unstable(pairs) ==
    IF pairs = <<>> THEN <<>>
    ELSE InsertDescFirst(sort_reverse_unstable(SubSeq(pairs, 1, Len(pairs) - 1)),
                         pairs[Len(pairs)])

RECURSIVE sort_reverse(_)
sort_reverse(pairs) ==
    IF pairs = <<>> THEN <<>>
    ELSE InsertDesc(sort_reverse(SubSeq(pairs, 1, Len(pairs) - 1)),
                    pairs[Len(pairs)])

\* the prices of all the candidates, those that are not > 0 too
RECURSIVE all_prices(_, _)
all_prices(data, cands) ==
    IF cands = <<>> THEN <<>>
    ELSE <<data[Head(cands)].price>> \o all_prices(data, Tail(cands))

\* prices = [r["price"] for r in candidates if r["price"] > 0]
RECURSIVE positive_prices(_, _)
positive_prices(data, cands) ==
    IF cands = <<>> THEN <<>>
    ELSE (IF IsPositive(data[Head(cands)].price)
          THEN <<data[Head(cands)].price>> ELSE <<>>)
         \o positive_prices(data, Tail(cands))

\* A record handed back by find_recent_price: its fields, and the row of
\* MOCK_DATA it is (ref), 0 for a dict of its own.
\* r = candidates[0]; r["price"] = med, without the copy: r is the row itself
alias_with_price(data, k, med) ==
    [data |-> [data EXCEPT ![k].price = med],
     rec  |-> [row |-> [data[k] EXCEPT !.price = med], ref |-> k]]

\* r = candidates[0].copy(); r["price"] = med: the dataset and r afterwards
copy_with_price(data, k, med) ==
    [data |-> data,
     rec  |-> [row |-> [data[k] EXCEPT !.price = med], ref |-> 0]]

\* lines 110-127: the dataset afterwards and the record returned (or None)
select_record(data, cands) ==
    LET wd     == with_dates(data, cands)
        prices == positive_prices(data, cands)
    IN  IF wd # <<>>
        THEN LET k == sort_reverse(wd)[1][2]
             IN  [data |-> data, rec |-> Some([row |-> data[k], ref |-> k])]
        ELSE IF prices # <<>>
        THEN LET out == copy_with_price(data, cands[1], Median(prices))
             IN  [data |-> out.data, rec |-> Some(out.rec)]
        ELSE [data |-> data, rec |-> None]

-----------------------------------------------------------------------------
(* simple_predict *)

low_vol == {<<"r","i","c","e">>, <<"w","h","e","a","t">>, <<"m","a","i","z","e">>, <<"p","a","d","d","y">>}
med_vol == {<<"o","n","i","o","n">>, <<"t","o","m","a","t","o">>, <<"p","o","t","a","t","o">>, <<"c","a","p","s","i","c","u","m">>, <<"b","r","i","n","j","a","l">>}
high_vol == {<<"t","o","m","a","t","o">>, <<"o","n","i","o","n">>}

\* vol, in percent
volatility(crop) ==
    LET c == Lower(crop)
    IN  IF \E x \in low_vol : Contains(c, x) THEN 2
        ELSE IF \E x \in med_vol : Contains(c, x) THEN 6
        ELSE IF \E x \in high_vol : Contains(c, x) THEN 12
        ELSE 5

\* random.gauss(0, vol) is 0 + z * vol for a standard normal z
\* (|z| < 8.6 for the 53-bit random() it is computed from)
ZDraws == {-5, 0, 5}

\* price = max(0.01, price * (1 + change_pct)), change_pct = z * vol
walk_step(p, v, z) ==
    RatMax(Rat(1, 100), RatMul(p, RatAdd(Rat(1, 1), Rat(z * v, 100))))

\* round(price * (1 + 0.01 * months_ahead), 2)
biased(p, m) == Round2(RatMul(p, RatAdd(Rat(1, 1), Rat(m, 100))))

-----------------------------------------------------------------------------
(* predict *)

\* months_ahead without the clamp
months_between_unclamped(target, n) ==
    (target[1] - n[1]) * 12 + (target[2] - n[2])

\* months_ahead, clamped at 0
months_between(target, n) ==
    LET m == (target[1] - n[1]) * 12 + (target[2] - n[2])
    IN  IF m < 0 THEN 0 ELSE m

\* record alone, whatever its price
usable_any(rec) == rec # None

\* record and record.get("price", 0) > 0
usable(rec) == rec # None /\ IsPositive(rec[1].row.price)

base_map ==
    << <<<<"t","o","m","a","t","o">>, Rat(18, 1)>>, <<<<"o","n","i","o","n">>, Rat(22, 1)>>,
       <<<<"p","o","t","a","t","o">>, Rat(15, 1)>>, <<<<"r","i","c","e">>, Rat(30, 1)>>,
       <<<<"w","h","e","a","t">>, Rat(25, 1)>>, <<<<"m","a","i","z","e">>, Rat(20, 1)>>,
       <<<<"b","a","n","a","n","a">>, Rat(30, 1)>>, <<<<"m","a","n","g","o">>, Rat(50, 1)>> >>

InBaseMap(c) == \E k \in 1..Len(base_map) : base_map[k][1] = c
BaseOf(c) == base_map[CHOOSE k \in 1..Len(base_map) : base_map[k][1] = c][2]

\* random.uniform(a, b) is a + (b - a) * random(), "in the range [a, b) or
\* [a, b] depending on rounding": with a = 10, b = 40 the largest random(),
\* 1 - 2^-53, gives exactly 40.0 in double arithmetic.
uniform(a, b) ==
    {a, RatMul(RatAdd(a, b), Rat(1, 2)), RatAdd(b, Rat(-1, 250)), b}

\* base_map.get(req.crop.lower(), random.uniform(10, 40)): what it may return
synthetic_prices(crop) ==
    IF InBaseMap(Lower(crop)) THEN {BaseOf(Lower(crop))}
    ELSE uniform(Rat(10, 1), Rat(40, 1))

\* x or ""
OrEmpty(opt) == IF opt = None THEN <<>> ELSE opt[1]

-----------------------------------------------------------------------------
(* Inputs *)

\* CSV rows, as the fields csv.reader splits a line into
\* a dated row, its unit blank
RowDated ==
    << <<"G","o","a">>,
       <<"P","a","n","a","j","i">>,
       <<"M","a","i","n">>,
       <<"R","i","c","e">>,
       <<"2","0","2","5","-","0","3","-","0","1">>,
       <<"3","2">>,
       <<>> >>

\* the latest date, a price that is no number
RowDatedZero ==
    << <<"G","o","a">>,
       <<"P","a","n","a","j","i">>,
       <<"M","a","i","n">>,
       <<"R","i","c","e">>,
       <<"2","0","2","5","-","0","4","-","0","1">>,
       <<"a","b","c">>,
       <<"k","g">> >>

\* no date; the state padded with a blank
RowUndated ==
    << <<" ","G","o","a">>,
       <<"P","a","n","a","j","i">>,
       <<"M","a","i","n">>,
       <<"r","i","c","e">>,
       <<>>,
       <<"2","0">>,
       <<"q","u","i","n","t","a","l">> >>

\* no date that parses, a price under half a cent, district and market blank
RowSubCent ==
    << <<"G","o","a">>,
       <<>>,
       <<>>,
       <<"R","i","c","e">>,
       <<"n","/","a">>,
       <<"0",".","0","0","4">>,
       <<"k","g">> >>

\* a row one field short: no unit
RowShort ==
    << <<"G","o","a">>,
       <<"P","a","n","a","j","i">>,
       <<"M","a","i","n">>,
       <<"R","i","c","e">>,
       <<"2","0","2","5","-","0","1","-","0","1">>,
       <<"3","0">> >>

FindRow1 ==
    << <<"G","o","a">>,
       <<"P","a","n","a","j","i">>,
       <<"M","a","i","n">>,
       <<"r","i","c","e">>,
       <<"2","0","2","5","-","0","1","-","0","1">>,
       <<"3","0">>,
       <<"k","g">> >>

\* district blank, another market, the latest date
FindRow2 ==
    << <<"G","o","a">>,
       <<>>,
       <<"Y","a","r","d">>,
       <<"R","i","c","e">>,
       <<"2","0","2","5","-","0","3","-","0","1">>,
       <<"3","2">>,
       <<>> >>

\* another state, market blank, the date of FindRow2 written 2025-3-1
FindRow3 ==
    << <<"B","i","h","a","r">>,
       <<"P","a","t","n","a">>,
       <<>>,
       <<"R","I","C","E">>,
       <<"2","0","2","5","-","3","-","1">>,
       <<"1","0">>,
       <<"k","g">> >>

\* no date
FindRow4 ==
    << <<"G","o","a">>,
       <<"P","a","n","a","j","i">>,
       <<"M","a","i","n">>,
       <<"R","i","c","e">>,
       <<>>,
       <<"2","0">>,
       <<"k","g">> >>

\* another state, no date that parses, no price
FindRow5 ==
    << <<"B","i","h","a","r">>,
       <<"P","a","t","n","a">>,
       <<"M","a","i","n">>,
       <<"R","i","c","e">>,
       <<"n","/","a">>,
       <<"a","b","c">>,
       <<"k","g">> >>

\* another district, a date that is no calendar day
FindRow6 ==
    << <<"G","o","a">>,
       <<"M","a","r","g","a","o">>,
       <<"M","a","i","n">>,
       <<"R","i","c","e">>,
       <<"2","0","2","5","-","0","2","-","3","0">>,
       <<"3","0">>,
       <<"k","g">> >>

\* another crop
FindRow7 ==
    << <<"G","o","a">>,
       <<"P","a","n","a","j","i">>,
       <<"M","a","i","n">>,
       <<"T","o","m","a","t","o">>,
       <<"2","0","2","5","-","0","2","-","0","1">>,
       <<"1","2">>,
       <<"k","g">> >>

\* the rows the files of Spec are made of
RowPool == {RowDated, RowDatedZero, RowUndated, RowSubCent}

\* files with a short row, and with an empty line (<<>>)
OddFiles ==
    {FileOf(<<RowShort>>), FileOf(<<RowDated, RowShort, RowUndated>>),
     FileOf(<<RowDatedZero, <<>>, RowUndated>>)}

\* the rows the files of SpecFind are made of
FindRowPool ==
    {FindRow1, FindRow2, FindRow3, FindRow4, FindRow5, FindRow6, FindRow7}

\* no file, and every file of at most max rows of the pool
FilesOver(pool, max) ==
    {NoFile} \cup {FileOf(rows) : rows \in UNION {[1..n -> pool] : n \in 0..max}}

\* datetime.now(), as (year, month)
Nows == {<<2025, 12>>, <<2026, 1>>}

TwoDigits(k) == <<Digits[(k \div 10) + 1], Digits[(k % 10) + 1]>>

\* "%04d-%02d" of the month k months after (year, month) n
MonthAfter(n, k) ==
    LET t == n[1] * 12 + (n[2] - 1) + k
        y == t \div 12
        m == (t % 12) + 1
    IN  TwoDigits(y \div 100) \o TwoDigits(y % 100) \o <<"-">> \o TwoDigits(m)

\* months a client may ask for when the clock reads n: last month to MaxAhead
\* months on, and texts that are no YYYY-MM
MonthTexts(n) ==
    {MonthAfter(n, k) : k \in (-1)..MaxAhead}
    \cup {<<"2","0","2","5","-","1","3">>, <<"D","e","c","e","m","b","e","r">>, <<"2","0","2","5","-","1">>, <<"0","0","0","0","-","0","1">>}

Requests(n) ==
    [state    : {<<"G","o","a">>},
     district : {None, Some(<<"P","A","N","A","J","I">>)},
     market   : {None},
     crop     : {<<"R","I","C","E">>, <<"T","o","m","a","t","o">>, <<"K","i","w","i">>},
     month    : MonthTexts(n)]

\* arguments find_recent_price is called with under SpecFind
FindArgs ==
    [state    : {<<>>, <<"g","o","a">>, <<"B","i","h","a","r">>},
     district : {<<>>, <<"P","A","N","A","J","I">>},
     market   : {<<>>, <<"m","a","i","n">>},
     crop     : {<<"R","I","C","E">>, <<"T","o","m","a","t","o">>}]

-----------------------------------------------------------------------------
(* The service *)

\* the locals of predict, find_recent_price and simple_predict
frame == <<req, trace, target_date, now, months_ahead, find_args, candidates,
           first_pass, record, current_price, unit, method, vol, price, i,
           predicted_price, response>>

\* the locals find_recent_price leaves alone
outside_find == <<req, trace, target_date, now, months_ahead, find_args,
                  current_price, unit, method, vol, price, i,
                  predicted_price, response>>

outside_find_args == <<req, trace, target_date, now, months_ahead,
                       current_price, unit, method, vol, price, i,
                       predicted_price, response>>

world == <<csv_file, clock>>

FreshFrame ==
    /\ req = None /\ trace = <<>> /\ target_date = NoDate /\ now = <<>>
    /\ months_ahead = 0 /\ find_args = None /\ candidates = <<>>
    /\ first_pass = <<>> /\ record = None /\ current_price = Zero
    /\ unit = <<>> /\ method = "" /\ vol = 0 /\ price = Zero /\ i = 0
    /\ predicted_price = Zero /\ response = None

InitWith(files, nows) ==
    /\ csv_file \in files
    /\ clock \in nows
    /\ startup = "init"
    /\ MOCK_DATA = <<>>
    /\ pc = "idle"
    /\ FreshFrame

Init == InitWith(FilesOver(RowPool, MaxRows) \cup OddFiles, Nows)

\* line 72, at import: MOCK_DATA = load_mock_data(); an exception ends the import
Load ==
    /\ startup = "init"
    /\ LET out == load_mock_data(csv_file)
       IN  /\ startup' = IF out.crashed THEN "crashed" ELSE "ready"
           /\ MOCK_DATA' = out.data
    /\ UNCHANGED <<world, pc, frame>>

\* POST /predict with a body the schema accepts: the handler starts
Receive ==
    /\ startup = "ready"
    /\ pc = "idle"
    /\ \E r \in Requests(clock) : req' = Some(r)
    /\ pc' = "validate"
    /\ UNCHANGED <<world, startup, MOCK_DATA, trace, target_date, now,
                   months_ahead, find_args, candidates, first_pass, record,
                   current_price, unit, method, vol, price, i,
                   predicted_price, response>>

\* lines 164-167
Validate ==
    /\ pc = "validate"
    /\ trace' = Append(trace, "validate")
    /\ LET d == month_to_date(req[1].month)
       IN  IF d = NoDate
           THEN /\ response' = Some([status |-> 400, body |-> None])
                /\ pc' = "done"
                /\ UNCHANGED target_date
           ELSE /\ target_date' = d
                /\ pc' = "months"
                /\ UNCHANGED response
    /\ UNCHANGED <<world, startup, MOCK_DATA, req, now, months_ahead,
                   find_args, candidates, first_pass, record, current_price,
                   unit, method, vol, price, i, predicted_price>>

\* lines 170-173
MonthsAhead ==
    /\ pc = "months"
    /\ now' = clock
    /\ months_ahead' = months_between(target_date, clock)
    /\ pc' = "locate"
    /\ UNCHANGED <<world, startup, MOCK_DATA, req, trace, target_date,
                   find_args, candidates, first_pass, record, current_price,
                   unit, method, vol, price, i, predicted_price, response>>

\* line 176: the call of find_recent_price
Locate ==
    /\ pc = "locate"
    /\ trace' = Append(trace, "locate")
    /\ find_args' = Some([state    |-> req[1].state,
                          district |-> OrEmpty(req[1].district),
                          market   |-> OrEmpty(req[1].market),
                          crop     |-> req[1].crop])
    /\ pc' = "filter"
    /\ UNCHANGED <<world, startup, MOCK_DATA, req, target_date, now,
                   months_ahead, candidates, first_pass, record,
                   current_price, unit, method, vol, price, i,
                   predicted_price, response>>

\* lines 86-103
FindFilter ==
    /\ pc = "filter"
    /\ IF MOCK_DATA = <<>>
       THEN /\ record' = None
            /\ pc' = "resolve"
            /\ UNCHANGED <<candidates, first_pass>>
       ELSE /\ candidates' = filter_candidates(MOCK_DATA, find_args[1])
            /\ first_pass' = candidates'
            /\ pc' = "relax"
            /\ UNCHANGED record
    /\ UNCHANGED <<world, startup, MOCK_DATA, outside_find>>

\* the candidates left as they are, without the relaxation
relaxed_never(data, a, cands) == cands

\* lines 104-106: the candidates after the relaxation
relaxed(data, a, cands) ==
    IF cands = <<>> THEN relax_candidates(data, a) ELSE cands

\* lines 104-108
FindRelax ==
    /\ pc = "relax"
    /\ candidates' = relaxed(MOCK_DATA, find_args[1], candidates)
    /\ IF candidates' = <<>>
       THEN record' = None /\ pc' = "resolve"
       ELSE pc' = "select" /\ UNCHANGED record
    /\ UNCHANGED <<world, startup, MOCK_DATA, first_pass, outside_find>>

\* lines 109-127
FindSelect ==
    /\ pc = "select"
    /\ LET out == select_record(MOCK_DATA, candidates)
       IN  /\ MOCK_DATA' = out.data
           /\ record' = out.rec
    /\ pc' = "resolve"
    /\ UNCHANGED <<world, startup, candidates, first_pass, outside_find>>

\* lines 178-191
Resolve ==
    /\ pc = "resolve"
    /\ req # None
    /\ IF usable(record)
       THEN /\ current_price' = record[1].row.price
            /\ unit' = IF record[1].row.unit = <<>> THEN Kg
                       ELSE record[1].row.unit
            /\ method' = "mock-data"
       ELSE /\ current_price' \in synthetic_prices(req[1].crop)
            /\ unit' = Kg
            /\ method' = "synthetic"
    /\ pc' = "predict"
    /\ UNCHANGED <<world, startup, MOCK_DATA, req, trace, target_date, now,
                   months_ahead, find_args, candidates, first_pass, record,
                   vol, price, i, predicted_price, response>>

\* line 193, lines 137-151: simple_predict is entered
PredictStart ==
    /\ pc = "predict"
    /\ trace' = Append(trace, "predict")
    /\ vol' = volatility(req[1].crop)
    /\ price' = current_price
    /\ i' = 0
    /\ pc' = "walk"
    /\ UNCHANGED <<world, startup, MOCK_DATA, req, target_date, now,
                   months_ahead, find_args, candidates, first_pass, record,
                   current_price, unit, method, predicted_price, response>>

\* lines 152-155: one iteration of the walk
WalkStep ==
    /\ pc = "walk"
    /\ i < months_ahead
    /\ \E z \in ZDraws : price' = walk_step(price, vol, z)
    /\ i' = i + 1
    /\ UNCHANGED <<world, startup, MOCK_DATA, pc, req, trace, target_date,
                   now, months_ahead, find_args, candidates, first_pass,
                   record, current_price, unit, method, vol,
                   predicted_price, response>>

\* lines 157-158: the loop is over, simple_predict returns
WalkEnd ==
    /\ pc = "walk"
    /\ i >= months_ahead
    /\ predicted_price' = biased(price, months_ahead)
    /\ pc' = "respond"
    /\ UNCHANGED <<world, startup, MOCK_DATA, req, trace, target_date, now,
                   months_ahead, find_args, candidates, first_pass, record,
                   current_price, unit, method, vol, price, i, response>>

\* lines 196-206
Respond ==
    /\ pc = "respond"
    /\ trace' = Append(trace, "respond")
    /\ response' = Some([status |-> 200,
                         body |-> Some([state          |-> req[1].state,
                                        district       |-> req[1].district,
                                        market         |-> req[1].market,
                                        crop           |-> req[1].crop,
                                        month          |-> req[1].month,
                                        unit           |-> unit,
                                        currentPrice   |-> Round2(current_price),
                                        predictedPrice |-> Round2(predicted_price),
                                        method         |-> method])])
    /\ pc' = "done"
    /\ UNCHANGED <<world, startup, MOCK_DATA, req, target_date, now,
                   months_ahead, find_args, candidates, first_pass, record,
                   current_price, unit, method, vol, price, i,
                   predicted_price>>

\* the response (or the HTTPException) is sent and the handler's frame is gone
Return ==
    /\ pc = "done"
    /\ pc' = "idle"
    /\ req' = None /\ trace' = <<>> /\ target_date' = NoDate /\ now' = <<>>
    /\ months_ahead' = 0 /\ find_args' = None /\ candidates' = <<>>
    /\ first_pass' = <<>> /\ record' = None /\ current_price' = Zero
    /\ unit' = <<>> /\ method' = "" /\ vol' = 0 /\ price' = Zero /\ i' = 0
    /\ predicted_price' = Zero /\ response' = None
    /\ UNCHANGED <<world, startup, MOCK_DATA>>

Next ==
    \/ Load
    \/ Receive
    \/ Validate
    \/ MonthsAhead
    \/ Locate
    \/ FindFilter
    \/ FindRelax
    \/ FindSelect
    \/ Resolve
    \/ PredictStart
    \/ WalkStep
    \/ WalkEnd
    \/ Respond
    \/ Return

Spec == Init /\ [][Next]_vars

-----------------------------------------------------------------------------
(* find_recent_price on its own *)

\* find_recent_price does not read the clock
InitFind == InitWith(FilesOver(FindRowPool, MaxFindRows), {<<2025, 12>>})

\* find_recent_price(state, district, crop, market) is called
CallFind ==
    /\ startup = "ready"
    /\ pc = "idle"
    /\ \E a \in FindArgs : find_args' = Some(a)
    /\ pc' = "filter"
    /\ UNCHANGED <<world, startup, MOCK_DATA, req, trace, target_date, now,
                   months_ahead, candidates, first_pass, record,
                   current_price, unit, method, vol, price, i,
                   predicted_price, response>>

\* the caller is done with the record
FindDone ==
    /\ pc = "resolve"
    /\ pc' = "idle"
    /\ find_args' = None /\ candidates' = <<>> /\ first_pass' = <<>>
    /\ record' = None
    /\ UNCHANGED <<world, startup, MOCK_DATA, outside_find_args>>

NextFind ==
    \/ Load
    \/ CallFind
    \/ FindFilter
    \/ FindRelax
    \/ FindSelect
    \/ FindDone

SpecFind == InitFind /\ [][NextFind]_vars

-----------------------------------------------------------------------------
(* Vocabulary of the properties *)

Range(f) == {f[k] : k \in DOMAIN f}
RatEq(p, q) == p.n * q.d = q.n * p.d

\* the handler has answered 200
Answered == pc = "done" /\ response # None /\ response[1].status = 200
Body == response[1].body[1]

\* find_recent_price has returned
Returned == pc = "resolve" /\ find_args # None

\* two texts equal but for the case of their letters
EqIgnoreCase(s, t) ==
    /\ Len(s) = Len(t)
    /\ \A k \in 1..Len(s) :
          \/ s[k] = t[k]
          \/ \E j \in 1..26 : {s[k], t[k]} = {UpperChars[j], LowerChars[j]}

\* the rows of the dataset whose crop is the requested one
CropRows == {k \in 1..Len(MOCK_DATA) :
                EqIgnoreCase(MOCK_DATA[k].crop, find_args[1].crop)}

\* the final candidates whose date parses
Dated == {k \in Range(candidates) : Strptime(MOCK_DATA[k].date) # NoDate}
DateOf(k) == Strptime(MOCK_DATA[k].date)

\* the final candidates whose price is > 0, and their prices in order
Priced == {k \in Range(candidates) : MOCK_DATA[k].price.n > 0}
PricedList ==
    LET ks == SelectSeq(candidates, LAMBDA k : MOCK_DATA[k].price.n > 0)
    IN  [j \in 1..Len(ks) |-> MOCK_DATA[ks[j]].price]

\* m is the statistical median of the list xs: the middle of xs put in
\* order, the mean of the two middle ones when there is no middle
IsMedian(m, xs) ==
    LET n == Len(xs)
    IN  \E f \in [1..n -> 1..n] :
           /\ \A a, b \in 1..n : a # b => f[a] # f[b]
           /\ \A a \in 1..(n - 1) : RatLe(xs[f[a]], xs[f[a + 1]])
           /\ IF n % 2 = 1
              THEN RatEq(m, xs[f[(n + 1) \div 2]])
              ELSE RatEq(RatAdd(m, m),
                         RatAdd(xs[f[n \div 2]], xs[f[(n \div 2) + 1]]))

-----------------------------------------------------------------------------
(* C1 *)

\* C1: in every 200 response, currentPrice and predictedPrice (the values
\* rounded to 2 decimal places) are both strictly greater than 0.
C1_PricesPositive ==
    Answered => Body.currentPrice.n > 0 /\ Body.predictedPrice.n > 0

-----------------------------------------------------------------------------
(* C2 *)

\* the requested month is the current month or an earlier one
NotAfterNow ==
    \/ target_date[1] < now[1]
    \/ target_date[1] = now[1] /\ target_date[2] <= now[2]

\* C2: months_ahead is never negative; a request for the current month or an
\* earlier one has months_ahead = 0, its walk takes no step, and its
\* predictedPrice equals its currentPrice.
C2_PastMonthPredictsCurrent ==
    /\ months_ahead >= 0
    /\ (Answered /\ NotAfterNow) =>
          /\ months_ahead = 0
          /\ i = 0
          /\ Body.predictedPrice = Body.currentPrice

\* a past month, priced from the dataset at a price that rounding changes
C2_Witness ==
    /\ Answered
    /\ target_date[1] < now[1]
    /\ method = "mock-data"
    /\ current_price # Body.currentPrice

-----------------------------------------------------------------------------
(* C3 *)

\* no row passes the filter and exactly one row has the requested crop
OnlyCropMatches ==
    /\ Returned
    /\ \A k \in 1..Len(MOCK_DATA) : ~matches(MOCK_DATA[k], find_args[1])
    /\ Cardinality(CropRows) = 1

TheCropRow == MOCK_DATA[CHOOSE k \in CropRows : TRUE]

\* C3 as stated: with no row passing the filter and exactly one row of the
\* requested crop, find_recent_price returns that row, whatever its date and
\* price are.
C3_RelaxationReturnsRow ==
    OnlyCropMatches => record # None /\ record[1].row = TheCropRow

\* C3 as amended: that row is returned when its date parses or its price is
\* > 0, and nothing is returned otherwise.
C3_RelaxationReturnsUsableRow ==
    OnlyCropMatches =>
        IF Strptime(TheCropRow.date) # NoDate \/ TheCropRow.price.n > 0
        THEN record # None /\ record[1].row = TheCropRow
        ELSE record = None

\* the relaxation hands back a row of another state
C3_Witness ==
    /\ OnlyCropMatches
    /\ record # None
    /\ Len(MOCK_DATA) > 1
    /\ ~EqIgnoreCase(TheCropRow.state, find_args[1].state)

-----------------------------------------------------------------------------
(* C4 *)

\* C4: when some final candidate has a date that parses, the record returned
\* is a row of the dataset, a candidate whose date is the latest of the dates
\* that parse, and the first such row of the dataset.
C4_MostRecentFirstOnTie ==
    (Returned /\ Dated # {}) =>
        /\ record # None
        /\ record[1].ref \in Dated
        /\ record[1].row = MOCK_DATA[record[1].ref]
        /\ \A k \in Dated :
              /\ ~DateLt(DateOf(record[1].ref), DateOf(k))
              /\ DateOf(k) = DateOf(record[1].ref) => record[1].ref <= k

\* an older row comes first, and two different rows share the latest date
C4_Witness ==
    /\ Returned /\ record # None
    /\ record[1].ref > 1
    /\ 1 \in Dated
    /\ \E k \in Dated :
          /\ k > record[1].ref
          /\ DateOf(k) = DateOf(record[1].ref)
          /\ MOCK_DATA[k] # MOCK_DATA[record[1].ref]

-----------------------------------------------------------------------------
(* C5 *)

\* C5: when no final candidate has a date that parses, None is returned
\* exactly when no candidate has a price > 0; otherwise the record returned is
\* the first candidate with its price replaced by the median of the prices > 0.
C5_MedianRecord ==
    (Returned /\ Dated = {}) =>
        /\ record = None <=> Priced = {}
        /\ record # None =>
              /\ record[1].ref = 0
              /\ record[1].row =
                    [MOCK_DATA[candidates[1]] EXCEPT !.price = record[1].row.price]
              /\ IsMedian(record[1].row.price, PricedList)

\* three prices > 0 that are not in order: the median is not the middle one
C5_Witness ==
    /\ Returned /\ Dated = {} /\ record # None
    /\ Cardinality(Priced) = 3
    /\ PricedList[2] # record[1].row.price

-----------------------------------------------------------------------------
(* C6 *)

\* a text of the form YYYY-MM naming a month of a year datetime knows
ValidYearMonth(t) ==
    /\ Len(t) = 7
    /\ t[5] = "-"
    /\ AllDigits(SubSeq(t, 1, 4)) /\ AllDigits(SubSeq(t, 6, 7))
    /\ IntOf(SubSeq(t, 1, 4)) >= 1
    /\ IntOf(SubSeq(t, 6, 7)) \in 1..12

\* C6: a request whose month is no valid YYYY-MM ends with 400 after Validate
\* alone; every other request goes through Validate, Locate, Predict and
\* Respond, once each and in that order, and ends with 200.
C6_MonthValidation ==
    pc = "done" =>
        IF ValidYearMonth(req[1].month)
        THEN /\ response[1].status = 200
             /\ trace = <<"validate", "locate", "predict", "respond">>
        ELSE /\ response[1].status = 400
             /\ trace = <<"validate">>

-----------------------------------------------------------------------------
(* C7 *)

\* current_price has been resolved (lines 178-191)
Resolved == method # ""

\* what C7 says of the source of the price, the synthetic price of a crop
\* that is not in the table lying between 10 and top
PriceSource(top_included) ==
    IF record # None /\ record[1].row.price.n > 0
    THEN /\ method = "mock-data"
         /\ current_price = record[1].row.price
    ELSE /\ method = "synthetic"
         /\ unit = Kg
         /\ IF InBaseMap(Lower(req[1].crop))
            THEN /\ current_price = BaseOf(Lower(req[1].crop))
                 /\ Lower(req[1].crop) = <<"t","o","m","a","t","o">> => current_price = Rat(18, 1)
            ELSE /\ RatLe(Rat(10, 1), current_price)
                 /\ IF top_included THEN RatLe(current_price, Rat(40, 1))
                    ELSE RatLt(current_price, Rat(40, 1))

\* the response carries method, unit and the price resolved, the price as it
\* is or rounded to 2 decimal places (lines 196-206)
InResponse(as_rounded) ==
    Answered =>
        /\ Body.method = method
        /\ Body.unit = unit
        /\ Body.currentPrice =
              IF as_rounded THEN Round2(current_price) ELSE current_price

\* C7 as stated: method is "mock-data" exactly when find_recent_price
\* returned a record with price > 0, and currentPrice is then its price;
\* otherwise method is "synthetic", unit is "kg" and currentPrice is the
\* table's value, or lies in [10, 40) for a crop that is not in the table.
C7_PriceSource == Resolved => PriceSource(FALSE) /\ InResponse(FALSE)

\* C7 as amended: the same, the price of a crop that is not in the table
\* lying in [10, 40], 40 included, and the response's currentPrice being the
\* price so resolved rounded to 2 decimal places.
C7_PriceSourceClosed == Resolved => PriceSource(TRUE) /\ InResponse(TRUE)

\* a request answered at the synthetic price of a crop that is not in the
\* table, the price at the top of its range
C7_Witness ==
    /\ Answered
    /\ method = "synthetic"
    /\ ~InBaseMap(Lower(req[1].crop))
    /\ current_price = Rat(40, 1)

-----------------------------------------------------------------------------
(* C8 *)

\* the filter of the first pass, as C8 words it
PassesFilter(row, a) ==
    /\ EqIgnoreCase(row.crop, a.crop)
    /\ a.state # <<>> => EqIgnoreCase(row.state, a.state)
    /\ ~(/\ a.district # <<>> /\ row.district # <<>>
         /\ ~EqIgnoreCase(row.district, a.district))
    /\ ~(/\ a.market # <<>> /\ row.market # <<>>
         /\ ~EqIgnoreCase(row.market, a.market))

\* C8: the candidates of the first pass are, in dataset order, the rows whose
\* crop is the requested one, whose state is the requested one when a state is
\* given, and whose district and market do not differ from the requested ones
\* when both are non-empty (case ignored throughout).
C8_FirstPassFilter ==
    pc \in {"relax", "select"} =>
        /\ \A k \in 1..Len(MOCK_DATA) :
              k \in Range(first_pass) <=> PassesFilter(MOCK_DATA[k], find_args[1])
        /\ \A a, b \in 1..Len(first_pass) : a < b => first_pass[a] < first_pass[b]

\* a district is asked for: a row with a blank district passes, a row of
\* another district does not, and a row passes whose crop is cased otherwise
C8_Witness ==
    /\ pc = "relax"
    /\ find_args[1].district # <<>>
    /\ \E k \in Range(first_pass) : MOCK_DATA[k].district = <<>>
    /\ \E k \in Range(first_pass) : MOCK_DATA[k].crop # find_args[1].crop
    /\ \E k \in 1..Len(MOCK_DATA) :
          /\ k \notin Range(first_pass)
          /\ EqIgnoreCase(MOCK_DATA[k].crop, find_args[1].crop)
          /\ EqIgnoreCase(MOCK_DATA[k].state, find_args[1].state)
          /\ MOCK_DATA[k].district # <<>>

-----------------------------------------------------------------------------
(* C9 *)

\* C9: once loaded, the dataset never changes, whatever the requests.
C9_DatasetNeverMutated == [][startup = "ready" => MOCK_DATA' = MOCK_DATA]_vars

\* a request was answered from a record of the median branch whose price is
\* not that of the row it was copied from
C9_Witness ==
    /\ Answered
    /\ record # None
    /\ record[1].ref = 0
    /\ record[1].row.price # MOCK_DATA[candidates[1]].price

-----------------------------------------------------------------------------
(* C10 *)

\* the text of field f of a data row, "" when the row is too short
FieldText(raw, f) ==
    LET k == CHOOSE j \in 1..7 : FIELDNAMES[j] = f
    IN  IF k <= Len(raw) THEN raw[k] ELSE <<>>

\* C10: the loader never fails: a missing file gives the empty dataset, and
\* every data row gives one record, in file order, whose price is the number
\* parsed or 0.0 and whose unit is "kg" when blank.
C10_LoaderBestEffort ==
    startup # "init" =>
        /\ startup = "ready"
        /\ ~csv_file.exists => MOCK_DATA = <<>>
        /\ LET rows == DataRows(csv_file.rows)
           IN  /\ Len(MOCK_DATA) = Len(rows)
               /\ \A k \in 1..Len(MOCK_DATA) :
                     /\ MOCK_DATA[k].crop = Strip(FieldText(rows[k], "crop"))
                     /\ MOCK_DATA[k].price =
                           (IF ParseFloat(FieldText(rows[k], "price")) = None
                            THEN Zero
                            ELSE ParseFloat(FieldText(rows[k], "price"))[1])
                     /\ Strip(FieldText(rows[k], "unit")) = <<>>
                           => MOCK_DATA[k].unit = Kg

=============================================================================
